---- MODULE Spec2Model ----
(***************************************************************************)
(* One session of recognize_speech_assemblyai_streaming                    *)
(* (src/ufo/module/interactor.py, lines 47-154): the caller thread, the    *)
(* transport thread that runs ws_app.run_forever and dispatches the four   *)
(* handlers, and the forwarder thread running stream_audio.                *)
(*                                                                         *)
(* Every statement that touches shared state is one atomic step, so the    *)
(* three threads interleave between any two statements of the source.      *)
(* The PyAudio stream, the PyAudio device and the websocket are modelled   *)
(* by the contract of the calls the source makes on them: an operation on  *)
(* a closed stream raises, closing the socket twice does nothing.          *)
(***************************************************************************)
EXTENDS Naturals, Sequences, FiniteSets

\* Bounds of the model.
MaxMessages == 2      \* inbound messages the backend delivers in a session
MaxFrames == 2        \* audio frames the forwarder sends in a session

VARIABLES
    pc,               \* caller: the statement recognize is about to execute
    transcript,       \* caller: local `transcript` (line 131/133), the return value
    waitEnd,          \* how result_queue.get ended: "none" | "result" | "deadline"
    result_queue,     \* queue.Queue() of line 48
    stop_event,       \* the session's threading.Event of line 53
    stream,           \* `stream`: "None" | "active" | "stopped" | "closed"
    audio,            \* the PyAudio instance: "init" | "terminated"
    ws_app,           \* `ws_app`: "None" | "created"
    closeRequested,   \* ws_app.close() has been called
    sock,             \* the connection: "none" | "connected" | "closed" | "failed"
    wpc,              \* transport thread: handler statement about to execute
    wmsg,             \* the `message` argument of the running on_message
    fpc,              \* forwarder thread (audio_thread): position in stream_audio
    nmsgs,            \* messages delivered so far
    frames,           \* frames sent so far
    written,          \* history: every transcript ever put on result_queue
    writtenAtWaitEnd, \* history: Len(written) when the result wait ended
    released,         \* history: how often stop/close/terminate took effect
    calls,            \* history: <<thread, operation>> of every release call made
    uncaught,         \* threads an exception has propagated out of
    discarded,        \* history: on_message has dropped an undecodable message
    sentAfterStop,    \* history: frames sent with the stop signal already set
    module_stop_event,  \* the module-level threading.Event of line 45
    other_stop_event,   \* the stop_event (line 53) of a concurrent second call
    other_result_queue  \* the result_queue (line 48) of that second call

vars == <<pc, transcript, waitEnd, result_queue, stop_event, stream, audio,
          ws_app, closeRequested, sock, wpc, wmsg, fpc, nmsgs, frames,
          written, writtenAtWaitEnd, released, calls, uncaught, discarded,
          sentAfterStop, module_stop_event, other_stop_event,
          other_result_queue>>

sessionVars == <<pc, transcript, waitEnd, result_queue, stop_event, stream,
                 audio, ws_app, closeRequested, sock, wpc, wmsg, fpc, nmsgs,
                 frames, written, writtenAtWaitEnd, released, calls, uncaught,
                 discarded, sentAfterStop>>

callerLocals == <<transcript, waitEnd, writtenAtWaitEnd>>
transportVars == <<ws_app, closeRequested, sock, wpc, wmsg, nmsgs>>
resultVars == <<result_queue, written>>
audioVars == <<stream, audio, released, calls>>
forwarderVars == <<fpc, frames>>
otherVars == <<module_stop_event, other_stop_event, other_result_queue>>

----------------------------------------------------------------------------
\* Inbound messages: what json.loads(message) yields.

Transcripts == {"", "hello", "world"}

NoMsg == [kind |-> "none"]

Messages ==
    {[kind |-> "invalid"], [kind |-> "nonobject"]}
    \cup [kind : {"object"}, type : {"Turn", "Begin"},
          transcript : Transcripts,
          turn_is_final : BOOLEAN, turn_is_formatted : BOOLEAN]

\* json.loads raises on text that is no JSON (line 71).
DecodeRaises(m) == m.kind = "invalid"

\* data.get raises AttributeError when the decoded value is no object (line 72).
GetRaises(m) == m.kind = "nonobject"

\* Mutant: requires both flags.
PutsTranscriptBothFlags(m) ==
    /\ ~DecodeRaises(m)
    /\ ~GetRaises(m)
    /\ m.type = "Turn"
    /\ m.turn_is_final /\ m.turn_is_formatted

\* Lines 70-78: the condition under which on_message reaches result_queue.put.
PutsTranscript(m) ==
    /\ ~DecodeRaises(m)
    /\ ~GetRaises(m)
    /\ m.type = "Turn"
    /\ (m.turn_is_final \/ m.turn_is_formatted)

----------------------------------------------------------------------------
\* PyAudio calls as the source uses them.

\* stream.is_active(), stream.stop_stream(), stream.close() and stream.read()
\* raise on a stream that has been closed.
StreamRaises(s) == s = "closed"

Release(op, who) ==
    /\ calls' = calls \cup {<<who, op>>}

Effect(op) == [released EXCEPT ![op] = @ + 1]

----------------------------------------------------------------------------
Init ==
    /\ pc = "open_mic"
    /\ transcript = ""
    /\ waitEnd = "none"
    /\ result_queue = <<>>
    /\ stop_event = FALSE
    /\ stream = "None"
    /\ audio = "init"
    /\ ws_app = "None"
    /\ closeRequested = FALSE
    /\ sock = "none"
    /\ wpc = "not_started"
    /\ wmsg = NoMsg
    /\ fpc = "none"
    /\ nmsgs = 0
    /\ frames = 0
    /\ written = <<>>
    /\ writtenAtWaitEnd = 0
    /\ released = [stop_stream |-> 0, close |-> 0, terminate |-> 0]
    /\ calls = {}
    /\ uncaught = {}
    /\ discarded = FALSE
    /\ sentAfterStop = 0
    /\ module_stop_event = FALSE
    /\ other_stop_event = FALSE
    /\ other_result_queue = <<>>

----------------------------------------------------------------------------
\* The caller: recognize_speech_assemblyai_streaming, lines 105-154.

\* Lines 105-113: audio.open succeeds; the stream is started on open.
OpenMicOK ==
    /\ pc = "open_mic"
    /\ stream' = "active"
    /\ pc' = "start_transport"
    /\ UNCHANGED <<otherVars, discarded, sentAfterStop,
                   callerLocals, resultVars, stop_event, audio, released, calls,
                   transportVars, forwarderVars, uncaught>>

\* Lines 105-115: audio.open raises.
OpenMicFails ==
    /\ pc = "open_mic"
    /\ pc' = "mic_failed"
    /\ UNCHANGED <<otherVars, discarded, sentAfterStop,
                   callerLocals, resultVars, stop_event, audioVars,
                   transportVars, forwarderVars, uncaught>>

\* Mutant: the except branch falls through to the transport set-up.
MicFailedNoReturn ==
    /\ pc = "mic_failed"
    /\ pc' = "start_transport"
    /\ UNCHANGED <<otherVars, discarded, sentAfterStop,
                   callerLocals, resultVars, stop_event, audioVars,
                   transportVars, forwarderVars, uncaught>>

\* Lines 116-118: terminate the device and return "".
MicFailed ==
    /\ pc = "mic_failed"
    /\ Release("terminate", "caller")
    /\ audio' = "terminated"
    /\ released' = IF audio = "init" THEN Effect("terminate") ELSE released
    /\ transcript' = ""
    /\ pc' = "returned"
    /\ UNCHANGED <<otherVars, discarded, sentAfterStop,
                   waitEnd, writtenAtWaitEnd, resultVars, stop_event, stream,
                   transportVars, forwarderVars, uncaught>>

\* Mutant: the caller starts audio_thread itself, before the connection.
StartTransportStartsForwarder ==
    /\ pc = "start_transport"
    /\ ws_app' = "created"
    /\ wpc' = "connecting"
    /\ pc' = "wait"
    /\ fpc' = "check"
    /\ UNCHANGED <<otherVars, discarded, sentAfterStop,
                   callerLocals, resultVars, stop_event, audioVars,
                   closeRequested, sock, wmsg, nmsgs, frames, uncaught>>

\* Lines 119-129: create the WebSocketApp and start ws_thread on run_forever.
StartTransport ==
    /\ pc = "start_transport"
    /\ ws_app' = "created"
    /\ wpc' = "connecting"
    /\ pc' = "wait"
    /\ UNCHANGED <<otherVars, discarded, sentAfterStop,
                   callerLocals, resultVars, stop_event, audioVars,
                   closeRequested, sock, wmsg, nmsgs, forwarderVars, uncaught>>

\* Line 131: result_queue.get returns the oldest item as soon as there is one.
WaitGet ==
    /\ pc = "wait"
    /\ result_queue # <<>>
    /\ transcript' = Head(result_queue)
    /\ result_queue' = Tail(result_queue)
    /\ waitEnd' = "result"
    /\ writtenAtWaitEnd' = Len(written)
    /\ pc' = "set_stop"
    /\ UNCHANGED <<otherVars, discarded, sentAfterStop,
                   written, stop_event, audioVars, transportVars,
                   forwarderVars, uncaught>>

\* Mutant: queue.Empty returns at once, skipping the teardown.
WaitTimeoutEarlyReturn ==
    /\ pc = "wait"
    /\ result_queue = <<>>
    /\ transcript' = ""
    /\ waitEnd' = "deadline"
    /\ writtenAtWaitEnd' = Len(written)
    /\ pc' = "returned"
    /\ UNCHANGED <<otherVars, discarded, sentAfterStop,
                   resultVars, stop_event, audioVars, transportVars,
                   forwarderVars, uncaught>>

\* Lines 131-134: the deadline expires with the queue empty (queue.Empty).
WaitTimeout ==
    /\ pc = "wait"
    /\ result_queue = <<>>
    /\ transcript' = ""
    /\ waitEnd' = "deadline"
    /\ writtenAtWaitEnd' = Len(written)
    /\ pc' = "set_stop"
    /\ UNCHANGED <<otherVars, discarded, sentAfterStop,
                   resultVars, stop_event, audioVars, transportVars,
                   forwarderVars, uncaught>>

\* Mutant: the caller relies on the handlers to set the stop signal.
CallerSetStopSkipped ==
    /\ pc = "set_stop"
    /\ stop_event' = stop_event
    /\ pc' = "ws_close"
    /\ UNCHANGED <<otherVars, discarded, sentAfterStop,
                   callerLocals, resultVars, audioVars, transportVars,
                   forwarderVars, uncaught>>

\* Line 135.
CallerSetStop ==
    /\ pc = "set_stop"
    /\ stop_event' = TRUE
    /\ pc' = "ws_close"
    /\ UNCHANGED <<otherVars, discarded, sentAfterStop,
                   callerLocals, resultVars, audioVars, transportVars,
                   forwarderVars, uncaught>>

\* Lines 136-137: ws_app.close() closes the socket if there is one.
CallerCloseTransport ==
    /\ pc = "ws_close"
    /\ closeRequested' = TRUE
    /\ sock' = IF sock = "connected" THEN "closed" ELSE sock
    /\ calls' = calls \cup {<<"caller", "ws_close">>}
    /\ pc' = "join"
    /\ UNCHANGED <<otherVars, discarded, sentAfterStop,
                   callerLocals, resultVars, stop_event, stream, audio, released,
                   ws_app, wpc, wmsg, nmsgs, forwarderVars, uncaught>>

\* Mutant: join without a timeout waits for run_forever to return.
CallerJoinNoTimeout ==
    /\ pc = "join"
    /\ wpc = "exited"
    /\ pc' = "is_active"
    /\ UNCHANGED <<otherVars, discarded, sentAfterStop,
                   callerLocals, resultVars, stop_event, audioVars, transportVars,
                   forwarderVars, uncaught>>

\* Line 138: ws_thread.join(timeout=2.0) ends when the thread has exited or
\* after two seconds, whichever is first.
CallerJoin ==
    /\ pc = "join"
    /\ pc' = "is_active"
    /\ UNCHANGED <<otherVars, discarded, sentAfterStop,
                   callerLocals, resultVars, stop_event, audioVars, transportVars,
                   forwarderVars, uncaught>>

\* Lines 139-144: `if stream.is_active()` inside try; a raise skips stop_stream.
CallerIsActive ==
    /\ pc = "is_active"
    /\ pc' = IF ~StreamRaises(stream) /\ stream = "active"
             THEN "stop_stream" ELSE "close_stream"
    /\ UNCHANGED <<otherVars, discarded, sentAfterStop,
                   callerLocals, resultVars, stop_event, audioVars, transportVars,
                   forwarderVars, uncaught>>

\* Lines 142-144: stream.stop_stream(); a raise is swallowed.
CallerStopStream ==
    /\ pc = "stop_stream"
    /\ Release("stop_stream", "caller")
    /\ stream' = IF StreamRaises(stream) THEN stream ELSE "stopped"
    /\ released' = IF stream = "active" THEN Effect("stop_stream") ELSE released
    /\ pc' = "close_stream"
    /\ UNCHANGED <<otherVars, discarded, sentAfterStop,
                   callerLocals, resultVars, stop_event, audio, transportVars,
                   forwarderVars, uncaught>>

\* Lines 145-148: stream.close(); a raise is swallowed.
CallerCloseStream ==
    /\ pc = "close_stream"
    /\ Release("close", "caller")
    /\ stream' = "closed"
    /\ released' = IF StreamRaises(stream) THEN released ELSE Effect("close")
    /\ pc' = "terminate"
    /\ UNCHANGED <<otherVars, discarded, sentAfterStop,
                   callerLocals, resultVars, stop_event, audio, transportVars,
                   forwarderVars, uncaught>>

\* Mutant: the queue is polled once more before the return.
CallerTerminateDrainsQueue ==
    /\ pc = "terminate"
    /\ Release("terminate", "caller")
    /\ audio' = "terminated"
    /\ released' = IF audio = "init" THEN Effect("terminate") ELSE released
    /\ pc' = "returned"
    /\ transcript' = IF result_queue # <<>> THEN Head(result_queue) ELSE transcript
    /\ result_queue' = IF result_queue # <<>> THEN Tail(result_queue)
                       ELSE result_queue
    /\ UNCHANGED <<otherVars, discarded, sentAfterStop, waitEnd,
                   writtenAtWaitEnd, written, stop_event, stream, transportVars,
                   forwarderVars, uncaught>>

\* Lines 149-154: audio.terminate(), then return transcript.
CallerTerminate ==
    /\ pc = "terminate"
    /\ Release("terminate", "caller")
    /\ audio' = "terminated"
    /\ released' = IF audio = "init" THEN Effect("terminate") ELSE released
    /\ pc' = "returned"
    /\ UNCHANGED <<otherVars, discarded, sentAfterStop,
                   callerLocals, resultVars, stop_event, stream, transportVars,
                   forwarderVars, uncaught>>

Caller ==
    \/ OpenMicOK \/ OpenMicFails \/ MicFailed \/ StartTransport
    \/ WaitGet \/ WaitTimeout \/ CallerSetStop \/ CallerCloseTransport
    \/ CallerJoin \/ CallerIsActive \/ CallerStopStream \/ CallerCloseStream
    \/ CallerTerminate

----------------------------------------------------------------------------
\* The transport thread: ws_app.run_forever (line 127) connects, then calls
\* the handlers registered in lines 119-126 one at a time.

\* The connection is established; run_forever calls on_open.
ConnectOK ==
    /\ wpc = "connecting"
    /\ sock' = "connected"
    /\ wpc' = "on_open"
    /\ UNCHANGED <<otherVars, discarded, sentAfterStop,
                   pc, callerLocals, resultVars, stop_event, audioVars, ws_app,
                   closeRequested, wmsg, nmsgs, forwarderVars, uncaught>>

\* The backend is unreachable or rejects the credentials; run_forever calls
\* on_error and then on_close.
ConnectFails ==
    /\ wpc = "connecting"
    /\ sock' = "failed"
    /\ wpc' = "on_error"
    /\ UNCHANGED <<otherVars, discarded, sentAfterStop,
                   pc, callerLocals, resultVars, stop_event, audioVars, ws_app,
                   closeRequested, wmsg, nmsgs, forwarderVars, uncaught>>

\* Lines 55-67: on_open creates and starts audio_thread on stream_audio.
OnOpen ==
    /\ wpc = "on_open"
    /\ fpc' = "check"
    /\ wpc' = "dispatch"
    /\ UNCHANGED <<otherVars, discarded, sentAfterStop,
                   pc, callerLocals, resultVars, stop_event, audioVars, ws_app,
                   closeRequested, sock, wmsg, nmsgs, frames, uncaught>>

\* run_forever reads a message from the open connection and calls on_message.
Deliver(m) ==
    /\ wpc = "dispatch"
    /\ sock = "connected"
    /\ ~closeRequested
    /\ nmsgs < MaxMessages
    /\ nmsgs' = nmsgs + 1
    /\ wmsg' = m
    /\ wpc' = "on_message"
    /\ UNCHANGED <<otherVars, discarded, sentAfterStop,
                   pc, callerLocals, resultVars, stop_event, audioVars, ws_app,
                   closeRequested, sock, forwarderVars, uncaught>>

\* Mutant: a later transcript replaces the one in the slot.
OnMessageOverwrite ==
    /\ wpc = "on_message"
    /\ IF PutsTranscript(wmsg)
       THEN /\ result_queue' = <<wmsg.transcript>>
            /\ written' = Append(written, wmsg.transcript)
            /\ wpc' = "on_message_set"
            /\ wmsg' = wmsg
            /\ discarded' = discarded
       ELSE /\ UNCHANGED resultVars
            /\ wpc' = "dispatch"
            /\ wmsg' = NoMsg
            /\ discarded' = (discarded \/ DecodeRaises(wmsg) \/ GetRaises(wmsg))
    /\ UNCHANGED <<otherVars, sentAfterStop,
                   pc, callerLocals, stop_event, audioVars, ws_app,
                   closeRequested, sock, nmsgs, forwarderVars, uncaught>>

\* Mutant: no try/except around the body; the raise of json.loads or of
\* data.get leaves the handler and run_forever reports it to on_error.
OnMessageUnguarded ==
    /\ wpc = "on_message"
    /\ IF DecodeRaises(wmsg) \/ GetRaises(wmsg)
       THEN /\ uncaught' = uncaught \cup {"transport"}
            /\ wpc' = "on_error"
            /\ wmsg' = NoMsg
            /\ discarded' = TRUE
            /\ UNCHANGED resultVars
       ELSE /\ uncaught' = uncaught
            /\ discarded' = discarded
            /\ IF PutsTranscript(wmsg)
               THEN /\ result_queue' = Append(result_queue, wmsg.transcript)
                    /\ written' = Append(written, wmsg.transcript)
                    /\ wpc' = "on_message_set"
                    /\ wmsg' = wmsg
               ELSE /\ UNCHANGED resultVars
                    /\ wpc' = "dispatch"
                    /\ wmsg' = NoMsg
    /\ UNCHANGED <<otherVars, sentAfterStop,
                   pc, callerLocals, stop_event, audioVars, ws_app,
                   closeRequested, sock, nmsgs, forwarderVars>>

\* Lines 69-78 and 80-81: decode, test the type and the flags, put the
\* transcript; any exception ends the handler silently.
OnMessage ==
    /\ wpc = "on_message"
    /\ IF PutsTranscript(wmsg)
       THEN /\ result_queue' = Append(result_queue, wmsg.transcript)
            /\ written' = Append(written, wmsg.transcript)
            /\ wpc' = "on_message_set"
            /\ wmsg' = wmsg
            /\ discarded' = discarded
       ELSE /\ UNCHANGED resultVars
            /\ wpc' = "dispatch"
            /\ wmsg' = NoMsg
            /\ discarded' = (discarded \/ DecodeRaises(wmsg) \/ GetRaises(wmsg))
    /\ UNCHANGED <<otherVars, sentAfterStop,
                   pc, callerLocals, stop_event, audioVars, ws_app,
                   closeRequested, sock, nmsgs, forwarderVars, uncaught>>

\* Line 79: stop_event.set() after the put.
OnMessageSetStop ==
    /\ wpc = "on_message_set"
    /\ stop_event' = TRUE
    /\ wpc' = "dispatch"
    /\ wmsg' = NoMsg
    /\ UNCHANGED <<otherVars, discarded, sentAfterStop,
                   pc, callerLocals, resultVars, audioVars, ws_app,
                   closeRequested, sock, nmsgs, forwarderVars, uncaught>>

\* The open connection breaks; run_forever calls on_error and then on_close.
TransportError ==
    /\ wpc = "dispatch"
    /\ sock = "connected"
    /\ sock' = "closed"
    /\ wpc' = "on_error"
    /\ UNCHANGED <<otherVars, discarded, sentAfterStop,
                   pc, callerLocals, resultVars, stop_event, audioVars, ws_app,
                   closeRequested, wmsg, nmsgs, forwarderVars, uncaught>>

\* Mutant: on_error leaves the stop signal alone.
OnErrorNoStop ==
    /\ wpc = "on_error"
    /\ stop_event' = stop_event
    /\ wpc' = "on_close"
    /\ UNCHANGED <<otherVars, discarded, sentAfterStop,
                   pc, callerLocals, resultVars, audioVars, ws_app,
                   closeRequested, sock, wmsg, nmsgs, forwarderVars, uncaught>>

\* Lines 83-84.
OnError ==
    /\ wpc = "on_error"
    /\ stop_event' = TRUE
    /\ wpc' = "on_close"
    /\ UNCHANGED <<otherVars, discarded, sentAfterStop,
                   pc, callerLocals, resultVars, audioVars, ws_app,
                   closeRequested, sock, wmsg, nmsgs, forwarderVars, uncaught>>

\* The backend closes the connection; run_forever calls on_close.
RemoteClose ==
    /\ wpc = "dispatch"
    /\ sock = "connected"
    /\ sock' = "closed"
    /\ wpc' = "on_close"
    /\ UNCHANGED <<otherVars, discarded, sentAfterStop,
                   pc, callerLocals, resultVars, stop_event, audioVars, ws_app,
                   closeRequested, wmsg, nmsgs, forwarderVars, uncaught>>

\* run_forever finds the connection closed by ws_app.close() (line 137) and
\* calls on_close on its way out.
LocalClose ==
    /\ wpc = "dispatch"
    /\ closeRequested
    /\ sock' = IF sock = "connected" THEN "closed" ELSE sock
    /\ wpc' = "on_close"
    /\ UNCHANGED <<otherVars, discarded, sentAfterStop,
                   pc, callerLocals, resultVars, stop_event, audioVars, ws_app,
                   closeRequested, wmsg, nmsgs, forwarderVars, uncaught>>

\* Line 86.
OnCloseSetStop ==
    /\ wpc = "on_close"
    /\ stop_event' = TRUE
    /\ wpc' = "on_close_is_active"
    /\ UNCHANGED <<otherVars, discarded, sentAfterStop,
                   pc, callerLocals, resultVars, audioVars, ws_app,
                   closeRequested, sock, wmsg, nmsgs, forwarderVars, uncaught>>

\* Lines 87-92: `if stream.is_active()` inside try; a raise skips stop_stream.
OnCloseIsActive ==
    /\ wpc = "on_close_is_active"
    /\ wpc' = IF ~StreamRaises(stream) /\ stream = "active"
              THEN "on_close_stop_stream" ELSE "on_close_close_stream"
    /\ UNCHANGED <<otherVars, discarded, sentAfterStop,
                   pc, callerLocals, resultVars, stop_event, audioVars, ws_app,
                   closeRequested, sock, wmsg, nmsgs, forwarderVars, uncaught>>

\* Lines 90-92: stream.stop_stream(); a raise is swallowed.
OnCloseStopStream ==
    /\ wpc = "on_close_stop_stream"
    /\ Release("stop_stream", "transport")
    /\ stream' = IF StreamRaises(stream) THEN stream ELSE "stopped"
    /\ released' = IF stream = "active" THEN Effect("stop_stream") ELSE released
    /\ wpc' = "on_close_close_stream"
    /\ UNCHANGED <<otherVars, discarded, sentAfterStop,
                   pc, callerLocals, resultVars, stop_event, audio, ws_app,
                   closeRequested, sock, wmsg, nmsgs, forwarderVars, uncaught>>

\* Mutant: stream.close() outside try; the raise of a second close leaves
\* the handler.
OnCloseCloseStreamUnguarded ==
    /\ wpc = "on_close_close_stream"
    /\ Release("close", "transport")
    /\ stream' = "closed"
    /\ released' = IF StreamRaises(stream) THEN released ELSE Effect("close")
    /\ uncaught' = IF StreamRaises(stream) THEN uncaught \cup {"transport"}
                   ELSE uncaught
    /\ wpc' = IF StreamRaises(stream) THEN "exited" ELSE "on_close_terminate"
    /\ UNCHANGED <<otherVars, discarded, sentAfterStop,
                   pc, callerLocals, resultVars, stop_event, audio, ws_app,
                   closeRequested, sock, wmsg, nmsgs, forwarderVars>>

\* Lines 93-96: stream.close(); a raise is swallowed.
OnCloseCloseStream ==
    /\ wpc = "on_close_close_stream"
    /\ Release("close", "transport")
    /\ stream' = "closed"
    /\ released' = IF StreamRaises(stream) THEN released ELSE Effect("close")
    /\ wpc' = "on_close_terminate"
    /\ UNCHANGED <<otherVars, discarded, sentAfterStop,
                   pc, callerLocals, resultVars, stop_event, audio, ws_app,
                   closeRequested, sock, wmsg, nmsgs, forwarderVars, uncaught>>

\* Lines 97-101: audio.terminate().
OnCloseTerminate ==
    /\ wpc = "on_close_terminate"
    /\ Release("terminate", "transport")
    /\ audio' = "terminated"
    /\ released' = IF audio = "init" THEN Effect("terminate") ELSE released
    /\ wpc' = "on_close_join"
    /\ UNCHANGED <<otherVars, discarded, sentAfterStop,
                   pc, callerLocals, resultVars, stop_event, stream, ws_app,
                   closeRequested, sock, wmsg, nmsgs, forwarderVars, uncaught>>

\* Lines 102-103: audio_thread.join(timeout=1.0) if the thread is alive; the
\* handler returns and run_forever ends.
OnCloseJoin ==
    /\ wpc = "on_close_join"
    /\ wpc' = "exited"
    /\ UNCHANGED <<otherVars, discarded, sentAfterStop,
                   pc, callerLocals, resultVars, stop_event, audioVars, ws_app,
                   closeRequested, sock, wmsg, nmsgs, forwarderVars, uncaught>>

Transport ==
    \/ ConnectOK \/ ConnectFails \/ OnOpen
    \/ (\E m \in Messages : Deliver(m))
    \/ OnMessage \/ OnMessageSetStop
    \/ TransportError \/ OnError \/ RemoteClose \/ LocalClose
    \/ OnCloseSetStop \/ OnCloseIsActive \/ OnCloseStopStream
    \/ OnCloseCloseStream \/ OnCloseTerminate \/ OnCloseJoin

----------------------------------------------------------------------------
\* The forwarder thread: stream_audio, lines 56-63.

\* Mutant: the loop never tests the stop signal.
FwdCheckIgnoresStop ==
    /\ fpc = "check"
    /\ fpc' = "read"
    /\ UNCHANGED <<otherVars, discarded, sentAfterStop,
                   pc, callerLocals, resultVars, stop_event, audioVars,
                   transportVars, frames, uncaught>>

\* Mutant: the loop tests the module-level stop_event of line 45.
FwdCheckModuleLevel ==
    /\ fpc = "check"
    /\ fpc' = IF module_stop_event THEN "exited" ELSE "read"
    /\ UNCHANGED <<otherVars, discarded, sentAfterStop,
                   pc, callerLocals, resultVars, stop_event, audioVars,
                   transportVars, frames, uncaught>>

\* Line 58: the loop test.
FwdCheck ==
    /\ fpc = "check"
    /\ fpc' = IF stop_event THEN "exited" ELSE "read"
    /\ UNCHANGED <<otherVars, discarded, sentAfterStop,
                   pc, callerLocals, resultVars, stop_event, audioVars,
                   transportVars, frames, uncaught>>

\* Line 60: stream.read returns a frame of the running stream.
FwdReadOK ==
    /\ fpc = "read"
    /\ stream = "active"
    /\ fpc' = "send"
    /\ UNCHANGED <<otherVars, discarded, sentAfterStop,
                   pc, callerLocals, resultVars, stop_event, audioVars,
                   transportVars, frames, uncaught>>

\* Lines 60, 62-63: stream.read raises (the stream was stopped or closed, or
\* the device failed); the loop breaks.
FwdReadFails ==
    /\ fpc = "read"
    /\ fpc' = "exited"
    /\ UNCHANGED <<otherVars, discarded, sentAfterStop,
                   pc, callerLocals, resultVars, stop_event, audioVars,
                   transportVars, frames, uncaught>>

\* Line 61: ws.send puts the frame on the open connection. The loop has no
\* bound of its own: frames counts up to MaxFrames and stays there, and
\* sentAfterStop up to 2.
FwdSendOK ==
    /\ fpc = "send"
    /\ sock = "connected"
    /\ frames' = IF frames < MaxFrames THEN frames + 1 ELSE frames
    /\ sentAfterStop' = IF stop_event /\ sentAfterStop < 2
                        THEN sentAfterStop + 1 ELSE sentAfterStop
    /\ fpc' = "check"
    /\ UNCHANGED <<otherVars, discarded,
                   pc, callerLocals, resultVars, stop_event, audioVars,
                   transportVars, uncaught>>

\* Mutant: a failed send raises the stop signal.
FwdSendFailsSetsStop ==
    /\ fpc = "send"
    /\ fpc' = "exited"
    /\ stop_event' = TRUE
    /\ UNCHANGED <<otherVars, discarded, sentAfterStop,
                   pc, callerLocals, resultVars, audioVars,
                   transportVars, frames, uncaught>>

\* Lines 61-63: ws.send raises (the connection is closed or broke); the loop
\* breaks.
FwdSendFails ==
    /\ fpc = "send"
    /\ fpc' = "exited"
    /\ UNCHANGED <<otherVars, discarded, sentAfterStop,
                   pc, callerLocals, resultVars, stop_event, audioVars,
                   transportVars, frames, uncaught>>

Forwarder ==
    \/ FwdCheck \/ FwdReadOK \/ FwdReadFails \/ FwdSendOK \/ FwdSendFails

----------------------------------------------------------------------------
\* Teardown calls made outside any try block (lines 136-138) raising.

\* Line 137: ws_app.close() raises; the exception leaves recognize.
CallerCloseTransportRaises ==
    /\ pc = "ws_close"
    /\ calls' = calls \cup {<<"caller", "ws_close">>}
    /\ uncaught' = uncaught \cup {"caller"}
    /\ pc' = "raised"
    /\ UNCHANGED <<otherVars, discarded, sentAfterStop,
                   callerLocals, resultVars, stop_event, stream, audio, released,
                   transportVars, forwarderVars>>

\* Line 138: ws_thread.join raises; the exception leaves recognize.
CallerJoinRaises ==
    /\ pc = "join"
    /\ uncaught' = uncaught \cup {"caller"}
    /\ pc' = "raised"
    /\ UNCHANGED <<otherVars, discarded, sentAfterStop,
                   callerLocals, resultVars, stop_event, audioVars,
                   transportVars, forwarderVars>>

----------------------------------------------------------------------------
Next == Caller \/ Transport \/ Forwarder

Spec == Init /\ [][Next]_vars

\* The same session when the calls of lines 137-138 may raise.
NextFault == Next \/ CallerCloseTransportRaises \/ CallerJoinRaises

FaultSpec == Init /\ [][NextFault]_vars

\* A second call of recognize running at the same time. Its result_queue
\* (line 48) and its stop_event (line 53) are objects of its own; the names
\* in its closures are bound to them.

\* Line 78 in the second call: a finalizing Turn puts its transcript.
OtherOnMessage ==
    /\ other_result_queue = <<>>
    /\ other_result_queue' = <<"other session">>
    /\ UNCHANGED <<sessionVars, module_stop_event, other_stop_event>>

\* Lines 79, 84, 86 and 135 in the second call: stop_event.set().
OtherSetStop ==
    /\ ~other_stop_event
    /\ other_stop_event' = TRUE
    /\ UNCHANGED <<sessionVars, module_stop_event, other_result_queue>>

NextTwoSessions == Next \/ OtherOnMessage \/ OtherSetStop

TwoSessionSpec == Init /\ [][NextTwoSessions]_vars

\* The caller is a running thread: each of its statements completes, the
\* result wait by its deadline and the join by its timeout.
LiveSpec == Spec /\ WF_vars(Caller)

\* The forwarder is a running thread: its loop test completes, and each
\* read and each send in flight returns or raises.
ForwarderLiveSpec == Spec /\ WF_vars(Forwarder)

----------------------------------------------------------------------------
\* Properties.

\* C1: recognize eventually returns to its caller, whatever the backend,
\* the microphone and the forwarder thread do: once the result wait has
\* ended only the close request, the join with its timeout and the audio
\* teardown remain, and none of them waits for another thread.
RecognizeReturns == <>(pc = "returned")

\* A session that returned after the deadline while the transport thread was
\* still inside a handler and the forwarder still in its loop.
RecognizeReturnsWitness ==
    /\ pc = "returned"
    /\ waitEnd = "deadline"
    /\ wpc \notin {"exited", "not_started"}
    /\ fpc \in {"check", "read", "send"}

\* C2 as claimed: whenever two or more finalizing events were processed, the
\* caller receives the transcript of the first one.
FirstTranscriptReturned ==
    (pc = "returned" /\ Len(written) >= 2) => transcript = written[1]

\* C2 as amended: with two or more finalizing events processed, the caller
\* receives exactly the first one's transcript, by the result path and never
\* a later one, when the first was processed before the result wait ended;
\* when the wait had already ended by the deadline it receives "".
FirstTranscriptReturnedInTime ==
    (pc = "returned" /\ Len(written) >= 2)
        => IF writtenAtWaitEnd >= 1
           THEN transcript = written[1] /\ waitEnd = "result"
           ELSE transcript = "" /\ waitEnd = "deadline"

\* Two finalizing events with different transcripts were both processed
\* before the caller took the result, and the caller has returned.
FirstTranscriptWitness ==
    /\ pc = "returned"
    /\ writtenAtWaitEnd >= 2
    /\ written[1] # written[2]
    /\ transcript = written[1]

\* C3 as claimed: at most one transcript is ever written to the result slot.
AtMostOneWrite == Len(written) <= 1

\* C4: when the wait ended by the deadline, recognize returns "" and at the
\* return the stream has been stopped and closed, the device terminated and
\* the transport close requested.
DeadlineReturnsEmptyReleased ==
    (pc = "returned" /\ waitEnd = "deadline")
        => /\ transcript = ""
           /\ stream = "closed"
           /\ released.stop_stream >= 1
           /\ released.close >= 1
           /\ audio = "terminated"
           /\ closeRequested

\* The deadline expired with no finalizing event processed at all, and the
\* caller itself had to release the audio.
DeadlineWitness ==
    /\ pc = "returned"
    /\ waitEnd = "deadline"
    /\ written = <<>>
    /\ <<"transport", "close">> \notin calls

\* C5: from a failed audio.open the only step of the session is the return
\* of "" with the device terminated: no transport, no transport thread, no
\* forwarder thread and no result wait.
MicFailureReturnsAtOnce ==
    [][pc = "mic_failed"
        => /\ pc' = "returned"
           /\ transcript' = ""
           /\ audio' = "terminated"
           /\ ws_app' = "None"
           /\ sock' = "none"
           /\ wpc' = "not_started"
           /\ fpc' = "none"
           /\ waitEnd' = "none"]_vars

\* recognize has returned from a failed audio.open.
MicFailureWitness ==
    /\ pc = "returned"
    /\ stream = "None"
    /\ audio = "terminated"

\* C6 as claimed: when recognize is left after the result wait, no exception
\* has been propagated to the caller and every resource has been released.
TeardownTotal ==
    (pc \in {"returned", "raised"} /\ waitEnd # "none")
        => /\ "caller" \notin uncaught
           /\ stream = "closed"
           /\ audio = "terminated"
           /\ closeRequested

\* C7 as claimed: after a failed connect recognize does not wait for the
\* deadline.
ConnectFailureReturnsAtOnce ==
    (pc = "returned" /\ sock = "failed") => waitEnd # "deadline"

IsFinalizingTurn(m) ==
    /\ m.kind = "object"
    /\ m.type = "Turn"
    /\ (m.turn_is_final \/ m.turn_is_formatted)

\* C9: on_message puts the transcript and goes on to set the stop signal if
\* and only if the message is a finalizing Turn; nothing else writes to the
\* result slot; and with nothing written recognize returns "" at the deadline.
OnMessageWritesIffFinalizing ==
    [][/\ (wpc = "on_message" /\ wpc' # wpc)
            => IF IsFinalizingTurn(wmsg)
               THEN /\ written' = Append(written, wmsg.transcript)
                    /\ wpc' = "on_message_set"
               ELSE /\ written' = written
                    /\ stop_event' = stop_event
                    /\ wpc' = "dispatch"
       /\ (wpc = "on_message_set" /\ wpc' # wpc) => stop_event'
       /\ (written' # written) => (wpc = "on_message" /\ IsFinalizingTurn(wmsg))
       /\ (pc' = "returned" /\ waitEnd' # "none" /\ written' = <<>>)
            => (transcript' = "" /\ waitEnd' = "deadline")]_vars

\* on_message is about to set the stop signal for a Turn that is formatted
\* but not final, after a message that wrote nothing.
OnMessageWitness ==
    /\ wpc = "on_message_set"
    /\ wmsg.turn_is_formatted /\ ~wmsg.turn_is_final
    /\ nmsgs = 2
    /\ Len(written) = 1

\* C10 as claimed: every stop, close and terminate of the audio and every
\* close of the transport is made by the thread executing recognize.
OnlyCoordinatorCloses == \A c \in calls : c[1] = "caller"

\* The forwarder thread is inside its loop.
ForwarderRunning == fpc \in {"check", "read", "send"}

\* C11 as claimed: teardown requests the transport close first, and the
\* stream is stopped or closed only when the forwarder thread is no longer
\* running.
TeardownOrder ==
    [][/\ (<<"caller", "close">> \in calls' \ calls) => closeRequested
       /\ (stream' # stream /\ stream' \in {"stopped", "closed"})
            => ~ForwarderRunning]_vars

\* The statements of a handler, entered at the first of them.
HandlerEntry == {"on_open", "on_message", "on_error", "on_close"}

HandlerStates ==
    HandlerEntry \cup {"on_message_set", "on_close_is_active",
                       "on_close_stop_stream", "on_close_close_stream",
                       "on_close_terminate", "on_close_join"}

\* C12 as claimed: once ws_app.close() has been called no handler is
\* invoked, and no handler is running while or after the caller tears the
\* audio down and returns.
NoHandlerAfterClose ==
    [][/\ (closeRequested /\ wpc' # wpc) => wpc' \notin HandlerEntry
       /\ (pc' \in {"is_active", "stop_stream", "close_stream", "terminate",
                    "returned"} /\ closeRequested')
            => wpc' \notin HandlerStates]_vars

\* C13: a failed read or send ends the forwarder loop and changes neither
\* the stop signal nor the result slot, and the caller stays where it is.
ForwarderFailureSilent ==
    [][(fpc \in {"read", "send"} /\ fpc' = "exited")
        => /\ stop_event' = stop_event
           /\ result_queue' = result_queue
           /\ written' = written
           /\ pc' = pc
           /\ waitEnd' = waitEnd]_vars

\* The forwarder has left its loop after sending a frame although the stop
\* signal was never set, and the caller is still waiting.
ForwarderFailureWitness ==
    /\ fpc = "exited"
    /\ ~stop_event
    /\ frames = 1
    /\ pc = "wait"

\* C14: the loop test never starts a new iteration once it sees the stop
\* signal set, and under fair scheduling of the forwarder a loop that is
\* running when the signal is set leaves the loop.
ForwarderExitsAfterStop ==
    /\ [][(fpc = "check" /\ stop_event) => fpc' # "read"]_vars
    /\ ((stop_event /\ ForwarderRunning) ~> (fpc = "exited"))

\* The stop signal was set while an iteration was in flight: the forwarder
\* finished that send, saw the signal at the loop test and left the loop.
ForwarderStopWitness ==
    /\ stop_event
    /\ fpc = "exited"
    /\ sentAfterStop = 1
    /\ frames = MaxFrames

\* The transport thread has entered on_error or on_close.
AbortStates ==
    {"on_error", "on_close", "on_close_is_active", "on_close_stop_stream",
     "on_close_close_stream", "on_close_terminate", "on_close_join", "exited"}

\* C15: on_error and on_close set the stop signal; when they are invoked
\* with no finalizing Turn processed nothing is written to the result slot
\* then or later, the wait does not end by a result, and recognize returns
\* "" after the deadline.
AbortWithoutResult ==
    /\ [][/\ (wpc \in {"on_error", "on_close"} /\ wpc' # wpc) => stop_event'
          /\ (wpc \in AbortStates /\ written = <<>>)
                => (written' = <<>> /\ result_queue' = <<>>)]_vars
    /\ []((wpc \in AbortStates /\ written = <<>>)
            => /\ waitEnd # "result"
               /\ (wpc \notin {"on_error", "on_close"} => stop_event)
               /\ (pc = "returned" => (transcript = "" /\ waitEnd = "deadline")))

\* The connect failed, on_error and on_close have run, and recognize has
\* returned "" after the deadline.
AbortWitness ==
    /\ sock = "failed"
    /\ wpc = "exited"
    /\ written = <<>>
    /\ pc = "returned"
    /\ transcript = ""
    /\ waitEnd = "deadline"

\* C16: on_message drops a message that does not decode to an object: the
\* handler ends without an exception and without a change to the stop
\* signal, the result slot, the audio, the connection or the forwarder.
UndecodableDiscarded ==
    [][(wpc = "on_message" /\ wpc' # wpc /\ wmsg.kind \in {"invalid", "nonobject"})
        => /\ wpc' = "dispatch"
           /\ uncaught' = uncaught
           /\ stop_event' = stop_event
           /\ result_queue' = result_queue
           /\ written' = written
           /\ stream' = stream
           /\ audio' = audio
           /\ ws_app' = ws_app
           /\ sock' = sock
           /\ fpc' = fpc]_vars

\* After an undecodable message was dropped a finalizing Turn has been
\* processed: its transcript is in the slot and the caller is still waiting.
UndecodableWitness ==
    /\ discarded
    /\ wpc = "on_message_set"
    /\ Len(written) = 1
    /\ result_queue = written
    /\ pc = "wait"

\* C17: the stop signal and the result slot belong to the session. A second
\* call that sets its stop signal or writes its transcript changes nothing
\* of this session, the forwarder loop follows this session's stop signal
\* alone, the caller never receives the other call's transcript, and the
\* module-level stop_event is never set.
SessionScoped ==
    /\ [][/\ module_stop_event' = module_stop_event
          /\ (other_stop_event' # other_stop_event
                \/ other_result_queue' # other_result_queue)
                => UNCHANGED sessionVars
          /\ (stop_event' # stop_event \/ result_queue' # result_queue)
                => UNCHANGED <<other_stop_event, other_result_queue>>
          /\ (fpc = "check" /\ fpc' = "exited") => stop_event
          /\ (fpc = "check" /\ fpc' = "read") => ~stop_event]_vars
    /\ [](~module_stop_event /\ transcript \in Transcripts)

\* The second call has its transcript and has set its stop signal while
\* this session's forwarder is still reading and its caller still waiting.
SessionScopedWitness ==
    /\ other_stop_event
    /\ other_result_queue # <<>>
    /\ ~stop_event
    /\ result_queue = <<>>
    /\ fpc = "read"
    /\ pc = "wait"

\* C18: once the microphone has opened, the stop signal is set from the end
\* of the result wait on, before the first teardown step and at the return,
\* and it is never cleared.
StopSetBeforeTeardown ==
    /\ [][stop_event => stop_event']_vars
    /\ []((\/ pc \in {"ws_close", "join", "is_active", "stop_stream",
                      "close_stream", "terminate"}
           \/ (pc = "returned" /\ stream # "None"))
            => stop_event)

\* recognize has returned after the deadline in a session in which no
\* handler ever set the stop signal.
StopSetWitness ==
    /\ pc = "returned"
    /\ waitEnd = "deadline"
    /\ written = <<>>
    /\ wpc = "dispatch"
    /\ stop_event

\* C19: the return value is fixed when the result wait ends: it does not
\* change afterwards and nothing is taken from the result slot any more, so
\* a transcript written after the deadline stays in the slot and recognize
\* returns "".
ReturnValueFixedAtWaitEnd ==
    /\ [][waitEnd # "none"
            => /\ waitEnd' = waitEnd
               /\ transcript' = transcript
               /\ Len(result_queue') >= Len(result_queue)]_vars
    /\ []((pc = "returned" /\ waitEnd = "deadline") => transcript = "")

\* A finalizing Turn was processed after the deadline: its transcript is
\* left in the slot and recognize has returned "".
LateTranscriptWitness ==
    /\ pc = "returned"
    /\ waitEnd = "deadline"
    /\ written = <<"hello">>
    /\ result_queue = written
    /\ transcript = ""

\* C20: a frame is sent only by a step of the forwarder loop, the loop is
\* started only by on_open, no frame is sent before on_open has run, and at
\* most one frame is sent with the stop signal set.
FramesOnlyFromForwarder ==
    /\ [][/\ (frames' # frames \/ sentAfterStop' # sentAfterStop)
                => (fpc = "send" /\ fpc' = "check")
          /\ (fpc = "none" /\ fpc' # "none")
                => (wpc = "on_open" /\ wpc' = "dispatch" /\ fpc' = "check")]_vars
    /\ []((frames > 0 \/ fpc # "none")
            => wpc \notin {"not_started", "connecting", "on_open"})
    /\ [](sentAfterStop <= 1)

\* The forwarder has sent its first frame, with the stop signal already set.
FramesWitness ==
    /\ frames = 1
    /\ sentAfterStop = 1
    /\ fpc = "check"

====
